---- MODULE Spec2Model ----
(***************************************************************************)
(* Model of auto_scan_folder (src/image_similarity_checker.py, 127-249):   *)
(* the folder check, the load phase that fills processed_images, the       *)
(* nested pair loop, the completion summary, the KeyboardInterrupt handler *)
(* and the finally block.                                                  *)
(*                                                                         *)
(* The files of image_files are identified by their list index 0..n-1.     *)
(* They are entries of one folder, so their basenames are distinct and an  *)
(* index stands for the basename as well.  Decoding, resizing and the SSIM *)
(* metric are external: each decode either succeeds or fails, each metric  *)
(* call returns a percentage drawn from Scores or raises.                  *)
(***************************************************************************)
EXTENDS Integers, Sequences, FiniteSets, TLC

\* Largest number of files with an image extension found in the folder.
MaxFiles == 4

\* Percentages compare_images can return, and thresholds the operator can give.
Scores == {50, 100}
Thresholds == {50, 100}

\* Outcome of one metric call: a percentage, or an exception, after which the
\* except branch of line 206 sets similarity to 0.
MetricOk(score) == [ok |-> TRUE, similarity |-> score]
MetricRaised == [ok |-> FALSE, similarity |-> 0]
Outcomes == {MetricOk(score) : score \in Scores} \cup {MetricRaised}

\* A local variable of auto_scan_folder that no statement has assigned yet.
Unassigned == << >>

VARIABLES
    tqdm,              \* TRUE iff the tqdm import succeeded (13-16)
    isdir,             \* os.path.isdir(folder_path) (130)
    nfiles,            \* len(image_files) (134-137)
    min_similarity,    \* the threshold argument (127)
    pc,                \* position in auto_scan_folder
    load_idx,          \* index of the next img_path of the load loop (155)
    processed_images,  \* keys of the dict processed_images (154-159)
    total_pairs,       \* local total_pairs (143)
    results,           \* local results: sequence of <<i, j, similarity>>
    current_pair,      \* local current_pair (178, 209)
    i, j,              \* loop variables of the pair loops (179, 186)
    progress,          \* local progress of auto_scan_folder (217, 220)
    titles,            \* every title passed to set_window_title, in order
    printed,           \* kinds of message printed so far
    visited,           \* history: <<i, j, outcome>> of every pair that entered the loop body
    retval             \* the value returned (meaningful once the function returned)

vars == << tqdm, isdir, nfiles, min_similarity, pc, load_idx, processed_images,
           total_pairs, results, current_pair, i, j, progress, titles, printed,
           visited, retval >>

inputs == << tqdm, isdir, nfiles, min_similarity >>

----------------------------------------------------------------------------
\* Pure helpers

\* math.comb(n, 2)
Comb2(n) == (n * (n - 1)) \div 2

\* f"{c / t * 100:.1f}" as a number of tenths of a percent
Tenths(c, t) == (2000 * c + t) \div (2 * t)

ScanTitle(p) == << "Auto-scan", p >>
TitleDone == << "Done" >>

\* The test of line 198
Admits_Strict(similarity, threshold) == similarity > threshold
Admits(similarity, threshold) == similarity >= threshold

\* results.sort(key=lambda x: x[2], reverse=True): stable, descending
RECURSIVE InsertDesc(_, _)
InsertDesc(s, e) ==
    IF s = << >> THEN << e >>
    ELSE IF Head(s)[3] >= e[3] THEN << Head(s) >> \o InsertDesc(Tail(s), e)
    ELSE << e >> \o s

RECURSIVE SortFrom(_, _)
SortFrom(acc, s) ==
    IF s = << >> THEN acc ELSE SortFrom(InsertDesc(acc, Head(s)), Tail(s))

RECURSIVE Reverse(_)
Reverse(s) == IF s = << >> THEN << >> ELSE Reverse(Tail(s)) \o << Head(s) >>

\* an ascending stable sort read backwards: descending, but ties reversed
SortDesc_ReversedAscending(s) == SortFrom(<< >>, Reverse(s))
SortDesc(s) == SortFrom(<< >>, s)

\* the finally block, lines 246-249
FinallyBlock_Skipped(t) == t
FinallyBlock(t) == Append(t, TitleDone)

\* the value the KeyboardInterrupt handler returns, line 245
InterruptReturn_Partial(res) == res
InterruptReturn(res) == << >>

\* the loop variables after one inner iteration: range(i+1, n) inside range(n)
NextIndex(a, b, n) == IF b + 1 < n THEN << a, b + 1 >> ELSE << a + 1, a + 2 >>

----------------------------------------------------------------------------
Init ==
    /\ tqdm \in BOOLEAN
    /\ isdir \in BOOLEAN
    /\ nfiles \in 0..MaxFiles
    /\ min_similarity \in Thresholds
    /\ pc = "start"
    /\ load_idx = 0
    /\ processed_images = {}
    /\ total_pairs = 0
    /\ results = << >>
    /\ current_pair = 0
    /\ i = 0
    /\ j = 0
    /\ progress = Unassigned
    /\ titles = << >>
    /\ printed = {}
    /\ visited = << >>
    /\ retval = << >>

\* lines 130-132: the folder does not exist; return [] through finally
NotADirectory ==
    /\ pc = "start"
    /\ ~isdir
    /\ printed' = printed \cup {"not_a_directory"}
    /\ retval' = << >>
    /\ titles' = FinallyBlock(titles)
    /\ pc' = "config_error"
    /\ UNCHANGED << inputs, load_idx, processed_images, total_pairs, results,
                    current_pair, i, j, progress, visited >>

\* lines 134-141: fewer than two files with an image extension
TooFewFiles ==
    /\ pc = "start"
    /\ isdir
    /\ nfiles < 2
    /\ printed' = printed \cup {"need_two_images"}
    /\ retval' = << >>
    /\ titles' = FinallyBlock(titles)
    /\ pc' = "config_error"
    /\ UNCHANGED << inputs, load_idx, processed_images, total_pairs, results,
                    current_pair, i, j, progress, visited >>

\* lines 134-154: the scan starts
BeginLoad ==
    /\ pc = "start"
    /\ isdir
    /\ nfiles >= 2
    /\ total_pairs' = Comb2(nfiles)
    /\ results' = << >>
    /\ processed_images' = {}
    /\ load_idx' = 0
    /\ pc' = "load"
    /\ UNCHANGED << inputs, current_pair, i, j, progress, titles, printed,
                    visited, retval >>

\* lines 155-162: one file is read, decoded and preprocessed
LoadOk ==
    /\ pc = "load"
    /\ load_idx < nfiles
    /\ processed_images' = processed_images \cup {load_idx}
    /\ load_idx' = load_idx + 1
    /\ UNCHANGED << inputs, pc, total_pairs, results, current_pair, i, j,
                    progress, titles, printed, visited, retval >>

\* lines 155-165: load_image returns None (unreadable or undecodable file),
\* preprocess_image raises, the except branch prints and continues
LoadFails ==
    /\ pc = "load"
    /\ load_idx < nfiles
    /\ printed' = printed \cup {"load_error"}
    /\ load_idx' = load_idx + 1
    /\ UNCHANGED << inputs, pc, processed_images, total_pairs, results,
                    current_pair, i, j, progress, titles, visited, retval >>

\* lines 167-179: the load loop is over, the pair loops begin
BeginCompare ==
    /\ pc = "load"
    /\ load_idx = nfiles
    /\ titles' = IF tqdm THEN titles ELSE Append(titles, ScanTitle(0))
    /\ current_pair' = 0
    /\ i' = 0
    /\ j' = 1
    /\ pc' = "scan"
    /\ UNCHANGED << inputs, load_idx, processed_images, total_pairs, results,
                    progress, printed, visited, retval >>

\* lines 180-182: image_files[i] is not in the cache
OuterSkip ==
    /\ pc = "scan"
    /\ j < nfiles
    /\ i \notin processed_images
    /\ i' = i + 1
    /\ j' = i + 2
    /\ UNCHANGED << inputs, pc, load_idx, processed_images, total_pairs,
                    results, current_pair, progress, titles, printed, visited,
                    retval >>

\* lines 187-189: image_files[j] is not in the cache
InnerSkip ==
    /\ pc = "scan"
    /\ j < nfiles
    /\ i \in processed_images
    /\ j \notin processed_images
    /\ i' = NextIndex(i, j, nfiles)[1]
    /\ j' = NextIndex(i, j, nfiles)[2]
    /\ UNCHANGED << inputs, pc, load_idx, processed_images, total_pairs,
                    results, current_pair, progress, titles, printed, visited,
                    retval >>

\* lines 191-222: the body of the inner loop for one pair of cached images
ComparePair(outcome) ==
    /\ pc = "scan"
    /\ j < nfiles
    /\ i \in processed_images
    /\ j \in processed_images
    /\ visited' = Append(visited, << i, j, outcome >>)
    /\ results' = IF outcome.ok /\ Admits(outcome.similarity, min_similarity)
                  THEN Append(results, << i, j, outcome.similarity >>)
                  ELSE results
    /\ printed' = IF outcome.ok THEN printed ELSE printed \cup {"compare_error"}
    /\ current_pair' = current_pair + 1
    /\ IF tqdm
       THEN \* lines 210-218
            /\ progress' = << Tenths(current_pair + 1, total_pairs) >>
            /\ titles' = Append(titles, ScanTitle(Tenths(current_pair + 1, total_pairs)))
            /\ i' = NextIndex(i, j, nfiles)[1]
            /\ j' = NextIndex(i, j, nfiles)[2]
            /\ pc' = "scan"
            /\ retval' = retval
       ELSE \* line 220 reads the local progress
            IF progress = Unassigned
            THEN \* UnboundLocalError: not a KeyboardInterrupt, so it leaves
                 \* the function through the finally block
                 /\ titles' = FinallyBlock(titles)
                 /\ pc' = "raised"
                 /\ UNCHANGED << progress, i, j, retval >>
            ELSE /\ titles' = Append(titles, ScanTitle(progress[1]))
                 /\ i' = NextIndex(i, j, nfiles)[1]
                 /\ j' = NextIndex(i, j, nfiles)[2]
                 /\ pc' = "scan"
                 /\ UNCHANGED << progress, retval >>
    /\ UNCHANGED << inputs, load_idx, processed_images, total_pairs >>

\* lines 224-241 and 246-249: summary, sort, return results
Complete ==
    /\ pc = "scan"
    /\ j >= nfiles
    /\ printed' = printed \cup {"summary"}
    /\ results' = SortDesc(results)
    /\ retval' = SortDesc(results)
    /\ titles' = FinallyBlock(titles)
    /\ pc' = "completed"
    /\ UNCHANGED << inputs, load_idx, processed_images, total_pairs,
                    current_pair, i, j, progress, visited >>

\* lines 243-249: KeyboardInterrupt anywhere inside the try block
Interrupt ==
    /\ pc \in {"start", "load", "scan"}
    /\ printed' = printed \cup {"interrupted"}
    /\ retval' = InterruptReturn(results)
    /\ titles' = FinallyBlock(titles)
    /\ pc' = "interrupted"
    /\ UNCHANGED << inputs, load_idx, processed_images, total_pairs, results,
                    current_pair, i, j, progress, visited >>

Next ==
    \/ NotADirectory
    \/ TooFewFiles
    \/ BeginLoad
    \/ LoadOk
    \/ LoadFails
    \/ BeginCompare
    \/ OuterSkip
    \/ InnerSkip
    \/ \E outcome \in Outcomes : ComparePair(outcome)
    \/ Complete
    \/ Interrupt

Spec == Init /\ [][Next]_vars

----------------------------------------------------------------------------
\* Vocabulary of the properties

Terminal == {"config_error", "completed", "interrupted", "raised"}

\* a scan that started its pair loops and ended without operator cancellation
Ended == pc \in {"completed", "raised"}

AllPairs(S) == {p \in S \X S : p[1] < p[2]}

VisitedPairs == {<< visited[k][1], visited[k][2] >> : k \in DOMAIN visited}

\* the MatchResult a visited pair gives rise to
MatchOf(e) == << e[1], e[2], e[3].similarity >>

Holds(seq, m) == \E k \in DOMAIN seq : seq[k] = m

\* position of a MatchResult's pair in the enumeration
PosOf(m) == CHOOSE k \in DOMAIN visited : visited[k][1] = m[1] /\ visited[k][2] = m[2]

\* number of executions of the finally block
Cleanups == Cardinality({k \in DOMAIN titles : titles[k] = TitleDone})

AdmittedVisits ==
    {k \in DOMAIN visited :
        visited[k][3].ok /\ visited[k][3].similarity >= min_similarity}

TypeOK ==
    /\ pc \in {"start", "load", "scan"} \cup Terminal
    /\ nfiles \in 0..MaxFiles
    /\ load_idx \in 0..nfiles
    /\ processed_images \subseteq 0..(nfiles - 1)
    /\ current_pair \in 0..Comb2(MaxFiles)
    /\ progress = Unassigned \/ Len(progress) = 1

----------------------------------------------------------------------------
\* C1: a scan of n >= 2 cached images that is not cancelled visits exactly
\* C(n,2) pairs: every unordered pair of distinct cached images once, as
\* (keys[i], keys[j]) with i < j, and never an image with itself.
C1_EveryPairVisitedOnce ==
    Ended =>
        /\ VisitedPairs = AllPairs(processed_images)
        /\ Len(visited) = Comb2(Cardinality(processed_images))
        /\ \A k \in DOMAIN visited : visited[k][1] < visited[k][2]

C3_SortedDescendingStable ==
    pc = "completed" =>
        \A a, b \in DOMAIN retval :
            a < b =>
               /\ retval[a][3] >= retval[b][3]
               /\ retval[a][3] = retval[b][3] => PosOf(retval[a]) < PosOf(retval[b])

\* a completed scan with three results, two of them tied, collected in an
\* order the sort had to change
C3_Witness ==
    /\ pc = "completed"
    /\ Len(retval) >= 3
    /\ \E a, b \in DOMAIN retval : a # b /\ retval[a][3] = retval[b][3]
    /\ \E k, l \in AdmittedVisits :
          k < l /\ visited[k][3].similarity < visited[l][3].similarity

C5_LoadFailureTolerated ==
    (Ended /\ "load_error" \in printed) =>
        /\ pc = "completed"
        /\ VisitedPairs = AllPairs(processed_images)
        /\ \A k \in DOMAIN results :
              /\ results[k][1] \in processed_images
              /\ results[k][2] \in processed_images
              /\ results[k][1] # results[k][2]

\* C6: when the folder is not a directory, or fewer than two images were
\* loaded successfully, an explanatory message is printed, no pair is scored
\* and no completion summary is printed.
C6_ConfigErrorStopsScan ==
    (/\ pc \in {"config_error", "completed", "raised"}
     /\ (~isdir \/ Cardinality(processed_images) < 2)) =>
        /\ printed \cap {"not_a_directory", "need_two_images"} # {}
        /\ visited = << >>
        /\ "summary" \notin printed

\* C7: the cleanup of the finally block has run exactly once when the
\* function has been left, on each of its exit paths, and not before.
C7_CleanupExactlyOnce ==
    /\ pc \in Terminal =>
          /\ Cleanups = 1
          /\ titles[Len(titles)] = TitleDone
    /\ pc \notin Terminal => Cleanups = 0

\* the exit by an exception that escapes the scan, after a pair was compared
C7_Witness ==
    /\ pc = "raised"
    /\ current_pair >= 1
    /\ titles[Len(titles)] = TitleDone

\* C8: when the metric fails for a pair of a scan that is not cancelled, no
\* MatchResult is emitted for it, the counter is advanced, every pair is
\* still scored and the scan reaches its summary and returns its results.
C8_MetricFailureNotFatal ==
    (Ended /\ \E k \in DOMAIN visited : ~visited[k][3].ok) =>
        /\ pc = "completed"
        /\ "summary" \in printed
        /\ current_pair = Len(visited)
        /\ VisitedPairs = AllPairs(processed_images)
        /\ \A k \in DOMAIN visited :
              ~visited[k][3].ok =>
                 \A m \in DOMAIN retval :
                    << retval[m][1], retval[m][2] >> # << visited[k][1], visited[k][2] >>

\* C9: the counter counts the visited pairs; total_pairs is C(n,2) for n the
\* number of cached images; the counter never exceeds total_pairs and equals
\* it when a scan completes.
C9_CounterReachesTotal ==
    /\ current_pair = Len(visited)
    /\ pc \in {"scan", "completed"} =>
          /\ total_pairs = Comb2(Cardinality(processed_images))
          /\ current_pair <= total_pairs
    /\ pc = "completed" => current_pair = total_pairs

\* C10: after each counted pair the percentage current_pair / total_pairs of
\* that pair has been reported as the title, under either display strategy,
\* and no display strategy makes the scan end by an exception.
C10_ProgressFromCurrentPair ==
    /\ \A c \in 1..current_pair :
          \E k \in DOMAIN titles : titles[k] = ScanTitle(Tenths(c, total_pairs))
    /\ pc # "raised"

====
